---- MODULE Spec2Model ----
(***************************************************************************)
(* Model of the auth-state store of firebase-auth-setup:                   *)
(*   AuthProvider / useAuth  (hooks/use-auth.tsx, src/unnamed/part_000)    *)
(*   App / AppWithProvider   (App.tsx, src/unnamed/part_000)               *)
(*   Header                  (src/src/components/header.tsx)               *)
(* together with the three operations of the identity service that the     *)
(* store consumes: onAuthStateChanged, signInWithPopup and signOut.        *)
(*                                                                         *)
(* Optional values (User | null, Context | undefined, string | null) are   *)
(* sequences of length at most one: <<>> is the absent value, <<x>> is x.  *)
(***************************************************************************)
EXTENDS Integers, Sequences, FiniteSets, Bags, TLC

\* ------------------------------------------------------------------ bounds
\* loginWithGoogle()/logout() invocations in one run
MaxCalls == 2
\* notifications the service has emitted and not yet delivered
MaxQueue == 1
\* AuthProvider instances created one after the other
MaxInst == 2
\* characters of a displayName
MaxLen == 4

\* ------------------------------------------------------------- data model
None == <<>>
Some(x) == <<x>>

\* firebase User objects, reduced to the two fields the views read
Ada == [displayName |-> Some(<<"A", "d", "a", " ", "L">>), photoURL |-> Some("ada.png")]
Anon == [displayName |-> None, photoURL |-> None]
Users == {Ada, Anon}

\* the payload of a notification: User | null
Payloads == {None} \cup {Some(u) : u \in Users}

\* the user of the account signed in on this browser, and what the service
\* reports of it: the page-level specifications follow one account
SessionUsers == {Ada}
SessionPayloads == {None} \cup {Some(u) : u \in SessionUsers}

\* display names: strings over an upper-case letter, a lower-case letter and
\* the space, as sequences of characters
Alphabet == {"U", "m", " "}
Names == UNION {[1..n -> Alphabet] : n \in 0..MaxLen}

\* users with every display name, and with none
NamedUsers == {[displayName |-> Some(n), photoURL |-> None] : n \in Names} \cup {Anon}
NamedPayloads == {None} \cup {Some(u) : u \in NamedUsers}

VARIABLES
  inst,       \* number of the current AuthProvider instance
  strict,     \* TRUE when the root is wrapped in React.StrictMode (development)
  phase,      \* lifecycle of the current instance
  user,       \* useState<User | null>: the value the last render read
  loading,    \* useState(true): the value the last render read
  pending,    \* the state updates queued by the callback since the last render
  view,       \* what the current instance has committed to the screen
  subs,       \* observers registered with the service and not unsubscribed
  subInst,    \* subscription id -> instance whose effect registered it
  unsubs,     \* subscription id -> number of invocations of its unsubscribe
  cleanup,    \* the unsubscribe captured by the cleanup of the last effect run
  nextSub,    \* next fresh subscription id
  queue,      \* notifications emitted by the service, not yet delivered
  calls,      \* loginWithGoogle()/logout() invocations, in order of invocation
  errLog      \* console.error entries, as a bag of [msg, call]

vars == <<inst, strict, phase, user, loading, pending, view, subs, subInst, unsubs, cleanup,
          nextSub, queue, calls, errLog>>

\* --------------------------------------------------------------- the views

\* createContext<AuthContextType | undefined>(undefined)
AuthContextDefault == None

\* useAuth as it would be with a default Session in place of the throw
useAuth_default(context) ==
  IF context = None
    THEN [raised |-> FALSE,
          value |-> Some([user |-> None, loading |-> TRUE,
                          loginWithGoogle |-> "loginWithGoogle", logout |-> "logout"])]
    ELSE [raised |-> FALSE, value |-> context]

\* the custom hook: throws outside a provider, returns the context inside
useAuth(context) ==
  IF context = None
    THEN [raised |-> TRUE,  value |-> None]
    ELSE [raised |-> FALSE, value |-> context]

RECURSIVE split(_, _)
\* String.prototype.split(sep) for a one-character separator: the pieces
\* between the separators, empty pieces included
split(str, sep) ==
  IF \A i \in 1..Len(str) : str[i] # sep THEN <<str>>
  ELSE LET i == CHOOSE k \in 1..Len(str) :
                  str[k] = sep /\ \A j \in 1..(k - 1) : str[j] # sep IN
       <<SubSeq(str, 1, i - 1)>> \o split(SubSeq(str, i + 1, Len(str)), sep)

\* n[0]: the first character of a string, undefined for the empty string
FirstChar(n) == IF n = <<>> THEN None ELSE Some(n[1])

RECURSIVE join(_)
\* Array.prototype.join(""): undefined elements count as the empty string
join(xs) ==
  IF xs = <<>> THEN <<>>
  ELSE (IF Head(xs) = None THEN <<>> ELSE <<Head(xs)[1]>>) \o join(Tail(xs))

\* toUpperCase of a character of the alphabet
Upper(ch) == IF ch = "m" THEN "M" ELSE ch

\* getInitials as it would be if it upper-cased the initials
getInitials_upper(name) ==
  IF name = None \/ name = Some(<<>>) THEN <<"U">>
  ELSE LET tokens == split(name[1], " ")
           firsts == [k \in DOMAIN tokens |-> FirstChar(tokens[k])] IN
       [k \in DOMAIN join(firsts) |-> Upper(join(firsts)[k])]

\* getInitials as it would be if it fell back to "U" whenever no initial is found
getInitials_fallback(name) ==
  IF name = None \/ name = Some(<<>>) THEN <<"U">>
  ELSE LET tokens == split(name[1], " ")
           initials == join([k \in DOMAIN tokens |-> FirstChar(tokens[k])]) IN
       IF initials = <<>> THEN <<"U">> ELSE initials

\* getInitials as it would be with the test name == null
getInitials_nullOnly(name) ==
  IF name = None THEN <<"U">>
  ELSE LET tokens == split(name[1], " ") IN
       join([k \in DOMAIN tokens |-> FirstChar(tokens[k])])

\* getInitials of the Header: "U" for a falsy name (null, undefined, ""),
\* else name.split(" ").map((n) => n[0]).join("")
getInitials(name) ==
  IF name = None \/ name = Some(<<>>) THEN <<"U">>
  ELSE LET tokens == split(name[1], " ") IN
       join([k \in DOMAIN tokens |-> FirstChar(tokens[k])])

\* the Header as it would be with the branches of its conditional exchanged
Header_swapped(context) ==
  LET r == useAuth(context) IN
  IF r.raised THEN [threw |-> TRUE, elems |-> {}, fallback |-> None]
  ELSE LET s == r.value[1] IN
       [threw |-> FALSE,
        elems |-> IF s.user # None
                    THEN {[kind |-> "loginButton", actions |-> {s.loginWithGoogle}]}
                    ELSE {[kind |-> "avatarMenu",  actions |-> {s.logout}]},
        fallback |-> IF s.user # None
                       THEN Some(getInitials(s.user[1].displayName)) ELSE None]

\* the Header as it would be with the login button outside the conditional
Header_alwaysLogin(context) ==
  LET r == useAuth(context) IN
  IF r.raised THEN [threw |-> TRUE, elems |-> {}, fallback |-> None]
  ELSE LET s == r.value[1] IN
       [threw |-> FALSE,
        elems |-> (IF s.user # None
                     THEN {[kind |-> "avatarMenu", actions |-> {s.logout}]}
                     ELSE {})
                  \cup {[kind |-> "loginButton", actions |-> {s.loginWithGoogle}]},
        fallback |-> IF s.user # None
                       THEN Some(getInitials(s.user[1].displayName)) ELSE None]

\* the Header: a pure function of the Session it reads through useAuth; elems
\* is the affordance shown, fallback the text of the AvatarFallback if any
Header(context) ==
  LET r == useAuth(context) IN
  IF r.raised THEN [threw |-> TRUE, elems |-> {}, fallback |-> None]
  ELSE LET s == r.value[1] IN
       [threw |-> FALSE,
        elems |-> IF s.user # None
                    THEN {[kind |-> "avatarMenu",  actions |-> {s.logout}]}
                    ELSE {[kind |-> "loginButton", actions |-> {s.loginWithGoogle}]},
        fallback |-> IF s.user # None
                       THEN Some(getInitials(s.user[1].displayName)) ELSE None]

NothingRendered ==
  [threw |-> FALSE, session |-> None, header |-> {}, fallback |-> None, body |-> {}]

\* App as it would be with the two messages of its conditional exchanged
App_exchanged(context) ==
  LET r == useAuth(context) IN
  IF r.raised
    THEN [threw |-> TRUE, session |-> None, header |-> {}, fallback |-> None, body |-> {}]
  ELSE LET s == r.value[1]
           h == Header(context) IN
       [threw   |-> h.threw,
        session |-> Some(s),
        header  |-> h.elems,
        fallback |-> h.fallback,
        body    |-> IF s.user # None THEN {"pleaseLogIn"} ELSE {"welcomeBack"}]

\* the root view App: reads the Session, renders the Header and the message
App(context) ==
  LET r == useAuth(context) IN
  IF r.raised
    THEN [threw |-> TRUE, session |-> None, header |-> {}, fallback |-> None, body |-> {}]
  ELSE LET s == r.value[1]
           h == Header(context) IN
       [threw   |-> h.threw,
        session |-> Some(s),
        header  |-> h.elems,
        fallback |-> h.fallback,
        body    |-> IF s.user # None THEN {"welcomeBack"} ELSE {"pleaseLogIn"}]

\* the value AuthProvider puts in the context
ContextValue(u, l) ==
  [user |-> u, loading |-> l,
   loginWithGoogle |-> "loginWithGoogle", logout |-> "logout"]

\* AuthProvider as it would render without the loading gate: {children}
AuthProviderRender_ungated(u, l) == App(Some(ContextValue(u, l)))

\* the render of AuthProvider: {!loading && children}
AuthProviderRender(u, l) ==
  IF ~l THEN App(Some(ContextValue(u, l))) ELSE NothingRendered

\* ---------------------------------------------------------------- helpers

\* setUser as it would be if it ignored a notification once a user is held
CallbackUser_sticky(prev, currentUser) == IF prev # None THEN prev ELSE currentUser

\* setUser as it would be if it merged the new user into the previous one,
\* keeping a previous field where the new one is absent
CallbackUser_merge(prev, currentUser) ==
  IF prev = None \/ currentUser = None THEN currentUser
  ELSE Some([f \in DOMAIN currentUser[1] |->
               IF currentUser[1][f] = None THEN prev[1][f] ELSE currentUser[1][f]])

\* the callback given to onAuthStateChanged, first statement: setUser(currentUser)
CallbackUser(prev, currentUser) == currentUser

\* the callback as it would be without its second statement
CallbackLoading_keep(prev) == prev

\* setLoading as it would be if it toggled the flag
CallbackLoading_toggle(prev) == ~prev

\* the callback given to onAuthStateChanged, second statement: setLoading(false)
CallbackLoading(prev) == FALSE

\* unsubscribe as it would be if the observer stayed registered
Unsubscribe_keep(S, s) == S

\* unsubscribe(): the service forgets the observer
Unsubscribe(S, s) == S \ {s}

\* the state of a new instance as it would be if the user were kept across instances
NewInstanceUser_carried(prev) == prev

\* useState<User | null>(null): a new instance starts from the literal, not
\* from the value prev the previous instance ended with
NewInstanceUser(prev) == None

\* useState(true): a new instance starts resolving
NewInstanceLoading(prev) == TRUE

\* the cleanup as it would be if it called unsubscribe twice
CleanupCalls_twice(c) == IF c = None THEN <<>> ELSE <<c[1], c[1]>>

\* the invocations of unsubscribe made by the cleanup () => unsubscribe(): one,
\* of the unsubscribe returned to the effect run that created the cleanup
CleanupCalls(c) == IF c = None THEN <<>> ELSE <<c[1]>>

RECURSIVE CountUnsubscribe(_, _)
\* the invocation counts after the invocations ss
CountUnsubscribe(counts, ss) ==
  IF ss = <<>> THEN counts
  ELSE CountUnsubscribe([counts EXCEPT ![Head(ss)] = @ + 1], Tail(ss))

\* the effect as it would be if it returned no cleanup
RunCleanup_none(S, c) == S

\* the effect cleanup: () => unsubscribe()
RunCleanup(S, c) == IF c = None THEN S ELSE Unsubscribe(S, c[1])

RECURSIVE Emit(_, _, _, _)
\* the service queues one notification for every observer, in order of registration
Emit(q, S, payload, call) ==
  IF S = {} THEN q
  ELSE LET s == CHOOSE x \in S : \A y \in S : x <= y IN
       Emit(Append(q, [sub |-> s, payload |-> payload, call |-> call]),
            S \ {s}, payload, call)

\* the dependency list of the effect is []: no re-render re-runs the effect
EffectDepsChanged == FALSE

\* no code of the page runs while React commits the StrictMode double mount
Quiescent == phase \in {"created", "mounted", "destroyed"}

\* what React shows after a state update of the current instance: an unmounted
\* instance shows nothing, a mounted one its render
Commit(u, l) ==
  IF phase = "destroyed" THEN NothingRendered ELSE AuthProviderRender(u, l)

\* -------------------------------------------------------------------- Init
Init ==
  /\ inst = 1
  /\ strict \in BOOLEAN
  /\ phase \in {"created", "bare"}
  /\ user = None
  /\ loading = TRUE
  /\ pending = None
  /\ view = IF phase = "created" THEN AuthProviderRender(None, TRUE) ELSE NothingRendered
  /\ subs = {}
  /\ subInst = <<>>
  /\ unsubs = <<>>
  /\ cleanup = None
  /\ nextSub = 1
  /\ queue = <<>>
  /\ calls = <<>>
  /\ errLog = EmptyBag

\* ----------------------------------------------------- lifecycle of a store

\* useEffect(() => { const unsubscribe = onAuthStateChanged(...); return ... }, [])
Subscribe ==
  /\ subs' = subs \cup {nextSub}
  /\ subInst' = Append(subInst, inst)
  /\ unsubs' = Append(unsubs, 0)
  /\ cleanup' = Some(nextSub)
  /\ nextSub' = nextSub + 1

\* first mount of the instance: the effect runs
Effect ==
  /\ phase = "created"
  /\ Subscribe
  /\ phase' = IF strict THEN "strictMounted" ELSE "mounted"
  /\ UNCHANGED <<inst, strict, user, loading, view, queue, calls, errLog, pending>>

\* StrictMode: the simulated unmount runs the cleanup, state is kept
StrictCleanup ==
  /\ phase = "strictMounted"
  /\ subs' = RunCleanup(subs, cleanup)
  /\ unsubs' = CountUnsubscribe(unsubs, CleanupCalls(cleanup))
  /\ cleanup' = None
  /\ phase' = "strictUnmounted"
  /\ UNCHANGED <<inst, strict, user, loading, view, subInst, nextSub, queue, calls, errLog, pending>>

\* StrictMode: the simulated remount runs the effect a second time
StrictEffect ==
  /\ phase = "strictUnmounted"
  /\ Subscribe
  /\ phase' = "mounted"
  /\ UNCHANGED <<inst, strict, user, loading, view, queue, calls, errLog, pending>>

\* the owning view is unmounted: the cleanup runs, the tree is removed
Unmount ==
  /\ phase = "mounted"
  /\ subs' = RunCleanup(subs, cleanup)
  /\ unsubs' = CountUnsubscribe(unsubs, CleanupCalls(cleanup))
  /\ cleanup' = None
  /\ phase' = "destroyed"
  /\ view' = NothingRendered
  /\ UNCHANGED <<inst, strict, user, loading, subInst, nextSub, queue, calls, errLog, pending>>

\* a new AuthProvider is rendered after the previous one was unmounted
Create ==
  /\ phase = "destroyed"
  /\ inst < MaxInst
  /\ inst' = inst + 1
  /\ phase' = "created"
  /\ user' = NewInstanceUser(user)
  /\ loading' = NewInstanceLoading(loading)
  /\ pending' = None
  /\ view' = AuthProviderRender(user', loading')
  /\ UNCHANGED <<strict, subs, subInst, unsubs, cleanup, nextSub, queue,
                 calls, errLog>>

\* ------------------------------------------------------ the identity service

\* the service reports its session (initial resolution, sign-in or sign-out
\* elsewhere, token refresh) without a call of this page: every observer is notified
SvcSessionChange(p) ==
  /\ Quiescent
  /\ Len(queue) + Cardinality(subs) <= MaxQueue
  /\ queue' = Emit(queue, subs, p, 0)
  /\ UNCHANGED <<inst, strict, phase, user, loading, view, subs, subInst, unsubs,
                 cleanup, nextSub, calls, errLog, pending>>

\* the state the next render will read: the last render's state with the
\* queued updates applied
HookState ==
  IF pending = None THEN [user |-> user, loading |-> loading] ELSE pending[1]

\* the service delivers the oldest notification: the observer's callback runs
\* if the observer is still registered. The callback only queues its two
\* state updates, setUser(currentUser) and setLoading(false); nothing is
\* rendered in this step.
Deliver ==
  /\ Quiescent
  /\ queue # <<>>
  /\ LET n == Head(queue) IN
     /\ queue' = Tail(queue)
     /\ pending' = IF n.sub \in subs /\ subInst[n.sub] = inst
                     THEN Some([user    |-> CallbackUser(HookState.user, n.payload),
                                loading |-> CallbackLoading(HookState.loading)])
                     ELSE pending
  /\ UNCHANGED <<inst, strict, phase, user, loading, view, subs, subInst, unsubs,
                 cleanup, nextSub, calls, errLog>>

\* React renders the mounted AuthProvider with the queued updates and commits:
\* the updates queued since the last render are applied together (createRoot
\* batches them), the view is replaced, and the effect, whose dependencies are
\* [], does not run again
Render ==
  /\ phase = "mounted"
  /\ pending # None
  /\ user' = pending[1].user
  /\ loading' = pending[1].loading
  /\ pending' = None
  /\ view' = Commit(user', loading')
  /\ IF EffectDepsChanged
       THEN /\ subs' = RunCleanup(subs, cleanup) \cup {nextSub}
            /\ subInst' = Append(subInst, inst)
            /\ unsubs' = Append(CountUnsubscribe(unsubs, CleanupCalls(cleanup)), 0)
            /\ cleanup' = Some(nextSub)
            /\ nextSub' = nextSub + 1
       ELSE UNCHANGED <<subs, subInst, unsubs, cleanup, nextSub>>
  /\ UNCHANGED <<inst, strict, phase, queue, calls, errLog>>

\* ------------------------------------------------ loginWithGoogle / logout

\* the functions as they would be if an invocation made while a call of the
\* same kind is pending returned at once without calling the service
NewCall_dedup(kind) ==
  IF \E c \in 1..Len(calls) : calls[c].kind = kind /\ calls[c].ext = "pending"
    THEN [kind |-> kind, ext |-> "none", done |-> "returned"]
    ELSE [kind |-> kind, ext |-> "pending", done |-> "no"]

\* an invocation: its one external call is issued at once and is pending
NewCall(kind) == [kind |-> kind, ext |-> "pending", done |-> "no"]

\* the rendered tree offers an element bound to the handler f
Offered(f) == \E e \in view.header : f \in e.actions

\* the call up to its await: signInWithPopup(auth, provider) / signOut(auth) is issued
Invoke(kind) ==
  /\ Quiescent
  /\ Len(calls) < MaxCalls
  /\ calls' = Append(calls, NewCall(kind))
  /\ UNCHANGED <<inst, strict, phase, user, loading, view, subs, subInst, unsubs,
                 cleanup, nextSub, queue, errLog, pending>>

\* the login button of the Header is clicked: onClick={loginWithGoogle}
ClickLogin == Offered("loginWithGoogle") /\ Invoke("login")

\* the "Log out" item of the avatar menu is clicked: onClick={logout}
ClickLogout == Offered("logout") /\ Invoke("logout")

\* loginWithGoogle() called by any holder of the function, in any store state
CallLogin == Invoke("login")

\* logout() called by any holder of the function, in any store state
CallLogout == Invoke("logout")

\* loginWithGoogle as it would be without its try/catch: the rejection of
\* signInWithPopup rejects the promise given to the caller and nothing is logged
loginWithGoogleResume_uncaught(ext, c, log, u, l) ==
  [log |-> log, done |-> IF ext = "failed" THEN "threw" ELSE "returned",
   user |-> u, loading |-> l]

\* the part of loginWithGoogle after the await, as a function of the outcome
\* ext of signInWithPopup: try { await ... } catch (error) { console.error(...) }.
\* It writes neither user nor loading.
loginWithGoogleResume(ext, c, log, u, l) ==
  IF ext = "failed"
    THEN [log  |-> log (+) SetToBag({[msg |-> "Error during Google sign-in:", call |-> c]}),
          done |-> "returned", user |-> u, loading |-> l]
    ELSE [log |-> log, done |-> "returned", user |-> u, loading |-> l]

\* logout as it would be if its catch block cleared the user itself
logoutResume_clears(ext, c, log, u, l) ==
  IF ext = "failed"
    THEN [log  |-> log (+) SetToBag({[msg |-> "Error during sign-out:", call |-> c]}),
          done |-> "returned", user |-> None, loading |-> l]
    ELSE [log |-> log, done |-> "returned", user |-> u, loading |-> l]

\* logout as it would be if it cleared the user itself once signOut succeeded,
\* without waiting for the notification
logoutResume_optimistic(ext, c, log, u, l) ==
  IF ext = "failed"
    THEN [log  |-> log (+) SetToBag({[msg |-> "Error during sign-out:", call |-> c]}),
          done |-> "returned", user |-> u, loading |-> l]
    ELSE [log |-> log, done |-> "returned", user |-> None, loading |-> l]

\* the part of logout after the await, as a function of the outcome ext of
\* signOut: try { await ... } catch (error) { console.error(...) }
logoutResume(ext, c, log, u, l) ==
  IF ext = "failed"
    THEN [log  |-> log (+) SetToBag({[msg |-> "Error during sign-out:", call |-> c]}),
          done |-> "returned", user |-> u, loading |-> l]
    ELSE [log |-> log, done |-> "returned", user |-> u, loading |-> l]

Awaiting(c, kind) ==
  /\ c \in 1..Len(calls)
  /\ calls[c].kind = kind
  /\ calls[c].ext = "pending"

\* the popup flow succeeds: the service signs u in and notifies its observers
SvcSignInOk(c, u) ==
  /\ Quiescent
  /\ Awaiting(c, "login")
  /\ Len(queue) + Cardinality(subs) <= MaxQueue
  /\ queue' = Emit(queue, subs, Some(u), c)
  /\ calls' = [calls EXCEPT ![c].ext = "ok"]
  /\ UNCHANGED <<inst, strict, phase, user, loading, view, subs, subInst, unsubs,
                 cleanup, nextSub, errLog, pending>>

\* the popup flow is rejected or cancelled by the user
SvcSignInFail(c) ==
  /\ Quiescent
  /\ Awaiting(c, "login")
  /\ calls' = [calls EXCEPT ![c].ext = "failed"]
  /\ UNCHANGED <<inst, strict, phase, user, loading, view, subs, subInst, unsubs,
                 cleanup, nextSub, queue, errLog, pending>>

\* signOut succeeds: the service drops its user and notifies its observers
SvcSignOutOk(c) ==
  /\ Quiescent
  /\ Awaiting(c, "logout")
  /\ Len(queue) + Cardinality(subs) <= MaxQueue
  /\ queue' = Emit(queue, subs, None, c)
  /\ calls' = [calls EXCEPT ![c].ext = "ok"]
  /\ UNCHANGED <<inst, strict, phase, user, loading, view, subs, subInst, unsubs,
                 cleanup, nextSub, errLog, pending>>

\* signOut is rejected
SvcSignOutFail(c) ==
  /\ Quiescent
  /\ Awaiting(c, "logout")
  /\ calls' = [calls EXCEPT ![c].ext = "failed"]
  /\ UNCHANGED <<inst, strict, phase, user, loading, view, subs, subInst, unsubs,
                 cleanup, nextSub, queue, errLog, pending>>

\* the await as it would be if it gave up on a call that has not settled
Settled_timeout(c, kind) ==
  /\ c \in 1..Len(calls)
  /\ calls[c].kind = kind
  /\ calls[c].done = "no"

\* the await of call c is over: signInWithPopup / signOut has settled and the
\* function has not resumed yet
Settled(c, kind) ==
  /\ c \in 1..Len(calls)
  /\ calls[c].kind = kind
  /\ calls[c].ext # "pending"
  /\ calls[c].done = "no"

\* loginWithGoogle resumes after its await and completes
LoginResume(c) ==
  /\ Quiescent
  /\ Settled(c, "login")
  /\ LET r == loginWithGoogleResume(calls[c].ext, c, errLog, user, loading) IN
     /\ errLog' = r.log
     /\ calls' = [calls EXCEPT ![c].done = r.done]
     /\ user' = r.user
     /\ loading' = r.loading
     /\ view' = Commit(r.user, r.loading)
  /\ UNCHANGED <<inst, strict, phase, subs, subInst, unsubs, cleanup, nextSub, queue, pending>>

\* logout resumes after its await and completes
LogoutResume(c) ==
  /\ Quiescent
  /\ Settled(c, "logout")
  /\ LET r == logoutResume(calls[c].ext, c, errLog, user, loading) IN
     /\ errLog' = r.log
     /\ calls' = [calls EXCEPT ![c].done = r.done]
     /\ user' = r.user
     /\ loading' = r.loading
     /\ view' = Commit(r.user, r.loading)
  /\ UNCHANGED <<inst, strict, phase, subs, subInst, unsubs, cleanup, nextSub, queue, pending>>

\* ------------------------------------------- a view outside every provider

\* the tree is wired without AuthProvider (phase "bare"): <App/> is rendered
\* with the default context; an error raised while rendering leaves the page
\* without a store
RenderOutside ==
  /\ phase = "bare"
  /\ view' = App(AuthContextDefault)
  /\ phase' = IF view'.threw THEN "crashed" ELSE "bareRendered"
  /\ UNCHANGED <<inst, strict, user, loading, subs, subInst, unsubs, cleanup, nextSub,
                 queue, calls, errLog, pending>>

Next ==
  \/ Effect
  \/ StrictCleanup
  \/ StrictEffect
  \/ Unmount
  \/ Create
  \/ \E p \in SessionPayloads : SvcSessionChange(p)
  \/ Deliver
  \/ Render
  \/ ClickLogin
  \/ ClickLogout
  \/ CallLogin
  \/ CallLogout
  \/ \E c \in 1..MaxCalls, u \in SessionUsers : SvcSignInOk(c, u)
  \/ \E c \in 1..MaxCalls : SvcSignInFail(c)
  \/ \E c \in 1..MaxCalls : SvcSignOutOk(c)
  \/ \E c \in 1..MaxCalls : SvcSignOutFail(c)
  \/ \E c \in 1..MaxCalls : LoginResume(c)
  \/ \E c \in 1..MaxCalls : LogoutResume(c)
  \/ RenderOutside

Spec == Init /\ [][Next]_vars

\* --------------------------------- the store under changes of the account

\* a page with an AuthProvider
InitLive == Init /\ phase = "created"

\* the life of the store while the service reports every user of Users, as
\* when the account signed in on the browser is changed elsewhere
NextUsers ==
  \/ Effect
  \/ StrictCleanup
  \/ StrictEffect
  \/ Unmount
  \/ Create
  \/ \E p \in Payloads : SvcSessionChange(p)
  \/ Deliver
  \/ Render

SpecUsers == InitLive /\ [][NextUsers]_vars

\* ------------------------------------------ the page with a live service

\* the life of the store and of the service's session, without calls of
\* loginWithGoogle or logout
NextLive ==
  \/ Effect
  \/ StrictCleanup
  \/ StrictEffect
  \/ Unmount
  \/ Create
  \/ \E p \in SessionPayloads : SvcSessionChange(p)
  \/ Deliver
  \/ Render

\* the service delivers every notification it has queued: its observers are
\* called from the event loop, which runs every pending callback
SpecLive == InitLive /\ [][NextLive]_vars /\ WF_vars(Deliver) /\ WF_vars(Render)

\* ------------------------------------- the page driven through its UI only

\* the steps of a page whose only callers of loginWithGoogle and logout are
\* the two onClick handlers of the Header
NextUI ==
  \/ Effect
  \/ StrictCleanup
  \/ StrictEffect
  \/ Unmount
  \/ Create
  \/ \E p \in SessionPayloads : SvcSessionChange(p)
  \/ Deliver
  \/ Render
  \/ ClickLogin
  \/ ClickLogout
  \/ \E c \in 1..MaxCalls, u \in SessionUsers : SvcSignInOk(c, u)
  \/ \E c \in 1..MaxCalls : SvcSignInFail(c)
  \/ \E c \in 1..MaxCalls : SvcSignOutOk(c)
  \/ \E c \in 1..MaxCalls : SvcSignOutFail(c)
  \/ \E c \in 1..MaxCalls : LoginResume(c)
  \/ \E c \in 1..MaxCalls : LogoutResume(c)
  \/ RenderOutside

SpecUI == Init /\ [][NextUI]_vars

\* ------------------------- calls that settle after their store is unmounted

\* the page is used through its Header, and the service settles a sign-in or
\* sign-out only once the store is unmounted: every call is still pending at
\* the unmount
NextOrphan ==
  \/ Effect
  \/ StrictCleanup
  \/ StrictEffect
  \/ Unmount
  \/ \E p \in SessionPayloads : SvcSessionChange(p)
  \/ Deliver
  \/ Render
  \/ ClickLogin
  \/ ClickLogout
  \/ \E c \in 1..MaxCalls, u \in SessionUsers : phase = "destroyed" /\ SvcSignInOk(c, u)
  \/ \E c \in 1..MaxCalls : phase = "destroyed" /\ SvcSignInFail(c)
  \/ \E c \in 1..MaxCalls : phase = "destroyed" /\ SvcSignOutOk(c)
  \/ \E c \in 1..MaxCalls : phase = "destroyed" /\ SvcSignOutFail(c)
  \/ \E c \in 1..MaxCalls : LoginResume(c)
  \/ \E c \in 1..MaxCalls : LogoutResume(c)

SpecOrphan == InitLive /\ [][NextOrphan]_vars

\* ------------------------------------------ the Header over all display names

\* a production page (no StrictMode) with an AuthProvider
InitInitials == Init /\ phase = "created" /\ ~strict

\* the store mounts and the service reports users with every display name,
\* one notification at a time, each rendered before the next
NextInitials ==
  \/ Effect
  \/ \E p \in NamedPayloads : queue = <<>> /\ pending = None /\ SvcSessionChange(p)
  \/ Deliver
  \/ Render

SpecInitials == InitInitials /\ [][NextInitials]_vars

\* ================================================================ properties

\* a step in which the service delivers a notification to a registered
\* observer of the current instance
Notified ==
  /\ queue # <<>>
  /\ queue' = Tail(queue)
  /\ Head(queue).sub \in subs
  /\ subInst[Head(queue).sub] = inst

\* a step in which React renders the queued updates of the current instance
Renders == phase = "mounted" /\ inst' = inst /\ pending # None /\ pending' = None

\* In the claims below the store's user and loading are HookState, the state
\* as the callback last wrote it; the variables user and loading are what the
\* last render read and the view shows.

\* the number of console.error entries with message msg logged for call c
LogCount(msg, c) == CopiesIn([msg |-> msg, call |-> c], errLog)

\* C1: loading is true right after the creation of an instance, stays true up
\* to the first notification delivered to it, is false after that notification
\* whatever its payload, and is never true again for that instance; the
\* rendered loading turns false only in the render of such a write and never
\* turns true again either.
C1_ResolvesOnce ==
  /\ [](phase = "created" => loading /\ HookState.loading)
  /\ [][/\ (HookState.loading /\ ~HookState'.loading => Notified)
        /\ (Notified => ~HookState'.loading)
        /\ (~HookState.loading /\ inst' = inst => ~HookState'.loading)
        /\ (loading /\ ~loading' => Renders /\ ~HookState.loading)
        /\ (~loading /\ inst' = inst => ~loading')]_vars

\* a mounted store that was resolved by a notification carrying null
C1_Witness == phase = "mounted" /\ ~loading /\ user = None /\ calls = <<>>

\* C2: on a mounted store, the delivery of the notification of a successful
\* loginWithGoogle() leaves a user present (the one signed in), and the delivery
\* of the notification of a successful logout() leaves user null.
C2_SessionFollowsCall ==
  [][Notified /\ phase = "mounted" /\ Head(queue).call # 0 =>
       LET c == Head(queue).call IN
         /\ calls[c].ext = "ok"
         /\ (calls[c].kind = "login" =>
               HookState'.user # None /\ HookState'.user = Head(queue).payload)
         /\ (calls[c].kind = "logout" => HookState'.user = None)]_vars

\* a login succeeded, its notification was delivered and rendered, a user is
\* held
C2_Witness ==
  /\ phase = "mounted" /\ queue = <<>> /\ pending = None /\ user # None
  /\ Len(calls) = 1 /\ calls[1].kind = "login" /\ calls[1].ext = "ok"
  /\ calls[1].done = "returned"

\* C3: a loginWithGoogle() whose sign-in fails leaves user and loading as they
\* were, logs exactly one entry for that call and returns normally to the
\* caller; a call that succeeds logs nothing.
C3_LoginFailure ==
  /\ [](\A c \in 1..Len(calls) : calls[c].kind = "login" =>
          /\ calls[c].done \in {"no", "returned"}
          /\ LogCount("Error during Google sign-in:", c) =
               (IF calls[c].ext = "failed" /\ calls[c].done = "returned" THEN 1 ELSE 0)
          /\ LogCount("Error during sign-out:", c) = 0)
  /\ [][\A c \in 1..Len(calls) :
          calls[c].kind = "login" /\ calls'[c] # calls[c] /\ calls'[c].ext = "failed"
            => user' = user /\ loading' = loading /\ pending' = pending /\ view' = view]_vars

\* a failed login has returned while a user was signed in
C3_Witness ==
  /\ phase = "mounted" /\ user # None
  /\ \E c \in 1..Len(calls) :
       calls[c].kind = "login" /\ calls[c].ext = "failed" /\ calls[c].done = "returned"

\* C4: a logout() whose sign-out fails is caught and logged exactly once,
\* returns normally to the caller, and leaves user (in particular a signed-in
\* user) and loading as they were.
C4_LogoutFailure ==
  /\ [](\A c \in 1..Len(calls) : calls[c].kind = "logout" =>
          /\ calls[c].done \in {"no", "returned"}
          /\ LogCount("Error during sign-out:", c) =
               (IF calls[c].ext = "failed" /\ calls[c].done = "returned" THEN 1 ELSE 0)
          /\ LogCount("Error during Google sign-in:", c) = 0)
  /\ [][\A c \in 1..Len(calls) :
          calls[c].kind = "logout" /\ calls'[c] # calls[c] /\ calls'[c].ext = "failed"
            => user' = user /\ loading' = loading /\ pending' = pending /\ view' = view]_vars

\* a failed logout has returned and the user is still signed in
C4_Witness ==
  /\ phase = "mounted" /\ user # None /\ queue = <<>>
  /\ Len(calls) = 1 /\ calls[1].kind = "logout" /\ calls[1].ext = "failed"
  /\ calls[1].done = "returned"

\* C5: the unmount is terminal: it leaves no observer of the instance
\* registered, the instance is never mounted again, and no later step (a
\* notification of the service, the settlement of a login or logout) changes
\* its user or loading.
C5_TeardownTerminal ==
  /\ [](phase = "destroyed" => \A s \in subs : subInst[s] # inst)
  /\ [][phase = "destroyed" =>
          /\ (inst' = inst => /\ phase' = "destroyed"
                               /\ user' = user /\ loading' = loading
                               /\ pending' = pending /\ view' = view)
          /\ (inst' # inst => phase' = "created")]_vars

\* an instance unmounted while resolving, a later sign-in at the service
\* succeeded and settled, and the instance still holds no user
C5_Witness ==
  /\ phase = "destroyed" /\ loading /\ user = None /\ queue = <<>>
  /\ \E c \in 1..Len(calls) :
       calls[c].kind = "login" /\ calls[c].ext = "ok" /\ calls[c].done = "returned"

\* C6: in every state at most one observer is registered with the service,
\* none is left once the owning view is unmounted (the unmount that StrictMode
\* simulates included), and the re-render that follows a notification
\* registers none.
C6_OneSubscription ==
  /\ [](/\ Cardinality(subs) <= 1
        /\ (phase \in {"strictUnmounted", "destroyed"} => subs = {}))
  /\ [][Notified \/ Renders =>
          subs' = subs /\ nextSub' = nextSub /\ cleanup' = cleanup]_vars

\* a store mounted under StrictMode (two effect runs) and re-rendered by a
\* notification holds one observer
C6_Witness ==
  /\ strict /\ phase = "mounted" /\ ~loading /\ pending = None /\ nextSub = 3
  /\ Cardinality(subs) = 1

\* C7: a notification delivered to a mounted store replaces user by exactly its
\* payload, nothing of the previous user is kept, so after any sequence of
\* notifications the user held, and the user a render then shows, is the
\* payload of the last one; and delivering the payload the store already
\* holds leaves the Session as it is.
C7_WholesaleReplace ==
  [][/\ (Notified =>
          /\ HookState'.user = Head(queue).payload
          /\ (HookState.user = Head(queue).payload /\ ~HookState.loading =>
                HookState' = HookState /\ view' = view))
     /\ (Renders => user' = HookState.user /\ HookState' = HookState)]_vars

\* a store that holds the user without fields, about to be told of the user
\* with fields
C7_Witness ==
  /\ phase = "mounted" /\ ~loading /\ user = Some(Anon)
  /\ queue # <<>> /\ Head(queue).sub \in subs /\ Head(queue).payload = Some(Ada)

\* the phases in which an AuthProvider instance is on the page
Provided == phase \in {"created", "strictMounted", "strictUnmounted", "mounted"}

\* C8: while loading is true AuthProvider shows none of its children (no
\* header affordance, no page body); once loading is false it shows them.
C8_GatedOnLoading ==
  Provided =>
    /\ (loading => view.session = None /\ view.header = {} /\ view.body = {})
    /\ (~loading => view.session # None /\ view.header # {} /\ view.body # {})

\* a mounted store still resolving while a notification carrying a user is
\* in flight
C8_Witness ==
  /\ phase = "mounted" /\ loading
  /\ queue # <<>> /\ Head(queue).sub \in subs /\ Head(queue).payload # None

\* C9: useAuth() outside every AuthProvider raises and yields no Session;
\* inside an AuthProvider it returns the provider's current user, loading,
\* loginWithGoogle and logout without raising.
C9_UseAuthScope ==
  /\ phase # "bareRendered"
  /\ (phase = "crashed" =>
        view.threw /\ view.session = None /\ view.header = {} /\ view.body = {})
  /\ (Provided => ~view.threw)
  /\ (phase = "mounted" /\ ~loading =>
        view.session = Some(ContextValue(user, loading)))

\* <App/> was rendered outside every provider and its render raised
C9_Witness == phase = "crashed" /\ view.threw

\* C10: for every Session the Header shows exactly one affordance: the login
\* button, bound to loginWithGoogle only, when user is absent; the avatar
\* menu, bound to logout only, when user is present.
C10_OneAffordance ==
  /\ \A u \in Payloads, l \in BOOLEAN :
       Header(Some(ContextValue(u, l))).elems =
         IF u = None
           THEN {[kind |-> "loginButton", actions |-> {"loginWithGoogle"}]}
           ELSE {[kind |-> "avatarMenu", actions |-> {"logout"}]}
  /\ (view.session # None =>
        /\ Cardinality(view.header) = 1
        /\ \A e \in view.header :
             IF view.session[1].user = None
               THEN e.kind = "loginButton" /\ e.actions = {"loginWithGoogle"}
               ELSE e.kind = "avatarMenu" /\ e.actions = {"logout"})

\* the Header of a signed-in store shows the avatar menu
C10_Witness ==
  /\ phase = "mounted" /\ user # None
  /\ view.header = {[kind |-> "avatarMenu", actions |-> {"logout"}]}

\* position i of name starts a token: a character that is not a space and
\* that is the first of the name or follows a space
InitialAt(name, i) == name[i] # " " /\ (i = 1 \/ name[i - 1] = " ")

\* the characters of name that start a token, in their order in name
FirstLetters(name) ==
  LET idx == {i \in 1..Len(name) : InitialAt(name, i)} IN
  [k \in 1..Cardinality(idx) |->
     name[CHOOSE i \in idx : Cardinality({j \in idx : j <= i}) = k]]

\* the store is resolved with a user, so the Header shows the avatar
AvatarShown == phase = "mounted" /\ ~loading /\ user # None

\* C11: for a non-empty displayName the initials shown are the first
\* characters of the space-separated tokens, in order and with their case
\* kept ("Ada L" gives "AL", "mm" gives "m").
C11_InitialsOfTokens ==
  /\ getInitials(Ada.displayName) = <<"A", "L">>
  /\ getInitials(Some(<<"m", "m">>)) = <<"m">>
  /\ (AvatarShown /\ user[1].displayName \notin {None, Some(<<>>)} =>
        view.fallback = Some(FirstLetters(user[1].displayName[1])))

\* the store holds the user named "Um m" and the avatar shows "Um"
C11_Witness ==
  /\ AvatarShown
  /\ user[1].displayName = Some(<<"U", "m", " ", "m">>)
  /\ view.fallback = Some(<<"U", "m">>)

\* C12: the initials are "U" when displayName is absent and when it is the
\* empty string; for every other name "U" is shown only if it is the name's
\* own initial, never as the default.
C12_DefaultInitial ==
  AvatarShown =>
    LET n == user[1].displayName IN
      /\ (n \in {None, Some(<<>>)} => view.fallback = Some(<<"U">>))
      /\ (n \notin {None, Some(<<>>)} /\ view.fallback = Some(<<"U">>) =>
            \E i \in 1..Len(n[1]) :
              /\ n[1][i] = "U" /\ InitialAt(n[1], i)
              /\ \A j \in 1..Len(n[1]) : InitialAt(n[1], j) => j = i)

\* the store holds a user whose displayName is the empty string and the
\* avatar shows "U"
C12_Witness ==
  /\ AvatarShown
  /\ user[1].displayName = Some(<<>>)
  /\ view.fallback = Some(<<"U">>)

\* the states of the store's state machine
Resolving == Provided /\ HookState.loading
SignedOut == phase = "mounted" /\ ~HookState.loading /\ HookState.user = None
SignedIn == phase = "mounted" /\ ~HookState.loading /\ HookState.user # None

\* the notification being delivered was emitted for a call of the given kind
NotifiedFor(kind) ==
  /\ Notified
  /\ Head(queue).call # 0
  /\ calls[Head(queue).call].kind = kind

\* C13 as stated: the first notification moves the store from Resolving to
\* signed-out; signed-in is entered only from signed-out by the notification
\* of a successful login(), and left only by the notification of a logout()
\* or by teardown.
C13_AsStated ==
  [][/\ (Resolving /\ Notified => SignedOut')
     /\ (~SignedIn /\ SignedIn' => SignedOut /\ NotifiedFor("login"))
     /\ (SignedIn /\ ~SignedIn' => phase' = "destroyed" \/ NotifiedFor("logout"))]_vars

\* C13, amended: the first notification moves the store from Resolving to
\* signed-in if it carries a user and to signed-out if it carries null;
\* signed-in is entered only by the delivery of a notification that carries a
\* user and left only by the delivery of one that carries null or by teardown;
\* the notification of a successful login() moves signed-out to signed-in and
\* that of a successful logout() moves signed-in to signed-out.
C13_StateMachine ==
  [][/\ (Resolving /\ Notified =>
           IF Head(queue).payload = None THEN SignedOut' ELSE SignedIn')
     /\ (~SignedIn /\ SignedIn' => Notified /\ Head(queue).payload # None)
     /\ (SignedIn /\ ~SignedIn' =>
           phase' = "destroyed" \/ (Notified /\ Head(queue).payload = None))
     /\ (SignedOut /\ NotifiedFor("login") => SignedIn')
     /\ (SignedIn /\ NotifiedFor("logout") => SignedOut')]_vars

\* a store that is signed in although no login() was ever called: its first
\* notification carried the user of a session the service had kept
C13_Witness == SignedIn /\ calls = <<>> /\ inst = 1 /\ queue = <<>>

\* C14: user and loading are written by the subscription callback only: no
\* step of a loginWithGoogle() or logout() (call, success or failure at the
\* service, resumption) changes them, and every change of user or loading of
\* an instance is the delivery of a notification; the rendered user and
\* loading change only when React renders what the callback wrote.
C14_OnlyCallbackWrites ==
  [][/\ (calls' # calls =>
          user' = user /\ loading' = loading /\ pending' = pending /\ view' = view)
     /\ (inst' = inst /\ HookState' # HookState => Notified)
     /\ (inst' = inst /\ (user' # user \/ loading' # loading) =>
          Renders /\ HookState' = HookState)]_vars

\* a logout() has succeeded and returned, its notification is still in
\* flight, and the store still holds the user
C14_Witness ==
  /\ SignedIn /\ queue # <<>> /\ Head(queue).sub \in subs
  /\ Head(queue).call # 0
  /\ calls[Head(queue).call].kind = "logout"
  /\ calls[Head(queue).call].done = "returned"

\* C15: for a login or logout that succeeded, the Session does not depend on
\* the order of the settlement of the promise and the delivery of the
\* notification: the settlement leaves user, loading and the notification in
\* flight as they are, and the delivery makes user the payload whether or not
\* the promise has settled.
C15_OrderIndependent ==
  [][\A c \in 1..Len(calls) : calls[c].ext = "ok" =>
        /\ (calls[c].done = "no" /\ calls'[c].done # "no" =>
              /\ user' = user /\ loading' = loading /\ pending' = pending
              /\ queue' = queue)
        /\ (Notified /\ Head(queue).call = c =>
              /\ HookState'.user = Head(queue).payload /\ ~HookState'.loading
              /\ calls'[c] = calls[c])]_vars

\* the promise of a successful login() has settled while its notification is
\* still in flight: the store is still signed out
C15_Witness ==
  /\ SignedOut /\ queue # <<>> /\ Head(queue).sub \in subs
  /\ Head(queue).call # 0
  /\ calls[Head(queue).call].kind = "login"
  /\ calls[Head(queue).call].done = "returned"

\* C16: loginWithGoogle() and logout() have no timeout and no cancellation:
\* while the external call has not settled the call has not completed and has
\* logged nothing, a step that leaves it unsettled leaves it as it is, and
\* while a call is unsettled the Session changes only by the delivery of a
\* notification.
C16_NoTimeout ==
  /\ [](\A c \in 1..Len(calls) : calls[c].ext = "pending" =>
          /\ calls[c].done = "no"
          /\ LogCount("Error during Google sign-in:", c) = 0
          /\ LogCount("Error during sign-out:", c) = 0)
  /\ [][\A c \in 1..Len(calls) : calls[c].ext = "pending" =>
          /\ (calls'[c].ext = "pending" => calls'[c] = calls[c])
          /\ (inst' = inst /\ ~Notified => HookState' = HookState)]_vars

\* a login() is still pending after its store was unmounted and a second
\* store was created and resolved
C16_Witness ==
  /\ inst = 2 /\ phase = "mounted" /\ ~loading
  /\ Len(calls) = 1 /\ calls[1].kind = "login" /\ calls[1].ext = "pending"
  /\ errLog = EmptyBag


\* the subscriptions registered so far, by their ids
Registered == 1..Len(unsubs)

\* a step that ends a mount: the simulated unmount of StrictMode or the unmount
EndsMount ==
  /\ phase \in {"strictMounted", "mounted"}
  /\ phase' \in {"strictUnmounted", "destroyed"}

\* C17: every subscription a store instance registers has its unsubscribe
\* invoked exactly once, at the unmount that ends the mount which registered
\* it: it is not invoked while that mount lasts, it is invoked once when the
\* mount ends, never again afterwards, and a step that ends a mount invokes
\* the unsubscribe of the subscription that mount registered and of no other.
C17_UnsubscribeOnce ==
  /\ [](/\ Len(unsubs) = Len(subInst)
        /\ \A s \in Registered :
             unsubs[s] = IF cleanup = Some(s) THEN 0 ELSE 1)
  /\ [][/\ \A s \in Registered :
             unsubs'[s] # unsubs[s] =>
               /\ EndsMount
               /\ s = Len(unsubs) /\ cleanup = Some(s) /\ subInst[s] = inst
               /\ unsubs'[s] = unsubs[s] + 1
        /\ (EndsMount => /\ cleanup # None
                         /\ unsubs'[cleanup[1]] = 1
                         /\ cleanup[1] \notin subs')]_vars

\* both mounts of a StrictMode instance and the mount of its successor have
\* ended: four subscriptions, each unsubscribed once
C17_Witness ==
  /\ strict /\ inst = 2 /\ phase = "destroyed"
  /\ unsubs = <<1, 1, 1, 1>>
  /\ subInst = <<1, 1, 2, 2>>
  /\ subs = {}


\* C18: a newly created store instance starts with user absent and loading
\* true whatever Session the earlier, unmounted instance ended with: the
\* step that creates an instance sets user to absent and loading to true, and
\* an instance that has not mounted yet holds exactly that Session.
C18_FreshInstance ==
  /\ [](phase = "created" =>
          user = None /\ loading /\ pending = None /\ view.session = None)
  /\ [][inst' # inst => /\ phase = "destroyed" /\ phase' = "created"
                        /\ user' = None /\ loading' /\ pending' = None]_vars

\* the second instance has just been created, after a sign-in made through
\* the first one succeeded and the first one was unmounted
C18_Witness ==
  /\ inst = 2 /\ phase = "created"
  /\ user = None /\ loading
  /\ \E c \in 1..Len(calls) : calls[c].kind = "login" /\ calls[c].ext = "ok"
  /\ subInst # <<>> /\ subs = {}


\* C19: in every committed state of a store instance loading = true implies
\* user = null: the callback's write of user and its write of loading are
\* committed by one render, so no rendered state holds a user while the store
\* still counts as resolving, and what is shown agrees with it.
C19_LoadingImpliesNoUser ==
  /\ [](loading => user = None)
  /\ [](Provided /\ view.session # None =>
          ~(view.session[1].loading /\ view.session[1].user # None))
  /\ [][inst' = inst /\ (user' # user \/ loading' # loading) =>
          Renders /\ user' = pending[1].user /\ loading' = pending[1].loading]_vars

\* the first notification of a StrictMode mount carried a user and has been
\* committed: user present, loading false, on the second subscription
C19_Witness ==
  /\ strict /\ inst = 1 /\ phase = "mounted"
  /\ user # None /\ ~loading
  /\ view.session = Some(ContextValue(user, FALSE))
  /\ cleanup = Some(2)

\* C20: every Session that useAuth() returns to a view rendered below
\* AuthProvider has loading = false: the children are rendered only when
\* loading is false and loading never goes back to true within an instance,
\* so no descendant observes loading = true.
C20_DescendantsSeeResolved ==
  /\ [](Provided /\ view.session # None =>
          /\ ~view.session[1].loading
          /\ view.session[1] = ContextValue(user, loading))
  /\ [][inst' = inst /\ ~loading => ~loading']_vars

\* App is rendered below a mounted AuthProvider by a signed-out store and
\* reads the Session through useAuth()
C20_Witness ==
  /\ phase = "mounted" /\ ~view.threw
  /\ view.session # None /\ view.session[1].user = None
  /\ ~view.session[1].loading
  /\ view.body = {"pleaseLogIn"}


\* a step that initiates a call of the given kind
Initiates(kind) ==
  /\ Len(calls') = Len(calls) + 1
  /\ calls'[Len(calls')].kind = kind

\* C21: through the rendered UI, loginWithGoogle() is initiated only in a
\* state of a mounted store where loading is false and user is absent, and
\* logout() only where loading is false and user is present, user and
\* loading being those of the render that is on the screen; the UI offers
\* neither while the store is Resolving nor after it is unmounted.
C21_UIInitiation ==
  /\ [](/\ (Offered("loginWithGoogle") =>
               phase = "mounted" /\ ~loading /\ user = None)
        /\ (Offered("logout") =>
               phase = "mounted" /\ ~loading /\ user # None))
  /\ [][/\ (Initiates("login") =>
               phase = "mounted" /\ ~loading /\ user = None)
        /\ (Initiates("logout") =>
               phase = "mounted" /\ ~loading /\ user # None)]_vars

\* the login button was clicked while it was still on the screen although the
\* callback had already taken a notification carrying a user, not rendered yet
C21_Witness ==
  /\ phase = "mounted" /\ user = None /\ ~loading
  /\ pending # None /\ pending[1].user # None
  /\ Offered("loginWithGoogle")
  /\ Len(calls) = 1
  /\ calls[1].kind = "login" /\ calls[1].ext = "pending"


\* a mounted store that is still resolving while the service holds a
\* notification for its subscription
ResolutionDue ==
  /\ phase = "mounted" /\ loading
  /\ \/ pending # None
     \/ \E i \in 1..Len(queue) :
          queue[i].sub \in subs /\ subInst[queue[i].sub] = inst

\* C22: loading becomes false only through the delivery of a notification:
\* every step that changes loading within an instance is a delivery and sets
\* it to false; the rendered loading turns false, and the children appear,
\* only in the render of such a write; a store that stays mounted with a
\* notification due eventually leaves Resolving and shows its children; and
\* every step that is not a delivery leaves a resolving store resolving, and
\* showing nothing, however long it waits.
C22_ResolvesByNotification ==
  /\ [][/\ (inst' = inst /\ HookState'.loading # HookState.loading =>
              Notified /\ ~HookState'.loading)
        /\ (Notified => ~HookState'.loading)
        /\ (HookState.loading /\ ~Notified =>
              HookState'.loading /\ loading' /\ view'.session = None)
        /\ (loading /\ ~Renders => loading' /\ view'.session = None)
        /\ (Renders => ~loading' /\ view'.session # None)]_vars
  /\ (ResolutionDue ~> ((~loading /\ view.session # None) \/ phase # "mounted"))

\* the second instance has left Resolving by a notification without a user
\* and shows its children
C22_Witness ==
  /\ inst = 2 /\ phase = "mounted"
  /\ ~loading /\ user = None
  /\ view.session # None /\ view.body # {}
  /\ queue = <<>>


\* the console.error message of a call of the given kind
ErrorMessage(kind) ==
  IF kind = "login" THEN "Error during Google sign-in:" ELSE "Error during sign-out:"

\* a step that settles call c or resumes its function
Settles(c) == c \in 1..Len(calls) /\ calls'[c] # calls[c]

\* C23: when the store is unmounted while a loginWithGoogle() or logout() is
\* pending, the later settlement of the call, success or failure, leaves user
\* and loading as they were, registers no subscription and notifies no
\* observer, raises nothing to the caller, and on failure logs exactly one
\* entry (none on success); nothing changes the unmounted store afterwards.
C23_SettlesAfterUnmount ==
  /\ [][/\ \A c \in 1..MaxCalls : Settles(c) =>
               /\ phase = "destroyed"
               /\ user' = user /\ loading' = loading /\ pending' = pending
               /\ view' = view
               /\ subs' = {} /\ subInst' = subInst /\ nextSub' = nextSub
               /\ cleanup' = cleanup /\ queue' = queue
               /\ calls'[c].done # "threw"
        /\ (phase = "destroyed" =>
               /\ user' = user /\ loading' = loading /\ pending' = pending
               /\ subs' = {} /\ nextSub' = nextSub)]_vars
  /\ [](\A c \in 1..Len(calls) :
          /\ calls[c].done \in {"no", "returned"}
          /\ LogCount(ErrorMessage(calls[c].kind), c) =
               (IF calls[c].ext = "failed" /\ calls[c].done = "returned" THEN 1 ELSE 0)
          /\ \A k \in {"login", "logout"} \ {calls[c].kind} :
               LogCount(ErrorMessage(k), c) = 0)

\* a login and a logout were pending when the signed-in store was unmounted;
\* then the sign-in failed and the sign-out succeeded, both have returned, one
\* entry is logged and the unmounted store still holds its user
C23_Witness ==
  /\ phase = "destroyed" /\ user # None /\ ~loading
  /\ subs = {} /\ queue = <<>>
  /\ Len(calls) = 2
  /\ calls[1] = [kind |-> "login", ext |-> "failed", done |-> "returned"]
  /\ calls[2] = [kind |-> "logout", ext |-> "ok", done |-> "returned"]
  /\ LogCount("Error during Google sign-in:", 1) = 1
  /\ BagCardinality(errLog) = 1


\* C24: every invocation of loginWithGoogle() issues exactly one external
\* sign-in call and every invocation of logout() exactly one external
\* sign-out call, whatever the Session is and whether or not an earlier call
\* is pending: an invocation adds one pending call of its kind and leaves the
\* earlier calls as they are, every invocation has its external call, which
\* settles at most once and is not issued again.
C24_OneExternalCall ==
  /\ [](\A c \in 1..Len(calls) : calls[c].ext \in {"pending", "ok", "failed"})
  /\ [][/\ Len(calls') >= Len(calls)
        /\ (Len(calls') # Len(calls) =>
              \E kind \in {"login", "logout"} :
                calls' = Append(calls, [kind |-> kind, ext |-> "pending", done |-> "no"]))
        /\ \A c \in 1..Len(calls) :
              /\ calls'[c].kind = calls[c].kind
              /\ (calls[c].ext # "pending" => calls'[c].ext = calls[c].ext)]_vars

\* two sign-in calls are pending at once in a store that holds a user
C24_Witness ==
  /\ phase = "mounted" /\ user # None /\ ~loading
  /\ Len(calls) = 2
  /\ \A c \in 1..2 : calls[c].kind = "login" /\ calls[c].ext = "pending"


\* the number of non-empty tokens of name.split(" ")
NonEmptyTokens(name) ==
  LET tokens == split(name, " ") IN
  Cardinality({k \in DOMAIN tokens : tokens[k] # <<>>})

\* C25: for a non-empty displayName the empty tokens made by leading,
\* trailing or consecutive spaces contribute no character: the initials shown
\* have as many characters as the name has non-empty tokens (as many as it
\* has positions that start a token), and a name made only of spaces gives the
\* empty string, not "U".
C25_EmptyTokens ==
  /\ getInitials(Some(<<" ", " ">>)) = <<>>
  /\ getInitials(Some(<<" ", "m", " ", " ", "U", " ">>)) = <<"m", "U">>
  /\ (AvatarShown /\ user[1].displayName \notin {None, Some(<<>>)} =>
        LET name == user[1].displayName[1] IN
          /\ view.fallback # None
          /\ Len(view.fallback[1]) = NonEmptyTokens(name)
          /\ NonEmptyTokens(name) = Cardinality({i \in 1..Len(name) : InitialAt(name, i)})
          /\ ((\A i \in 1..Len(name) : name[i] = " ") => view.fallback = Some(<<>>)))

\* the store holds a user whose displayName is two spaces and the avatar
\* shows the empty string
C25_Witness ==
  /\ AvatarShown
  /\ user[1].displayName = Some(<<" ", " ">>)
  /\ view.fallback = Some(<<>>)


\* the kinds of the affordances the Header shows
HeaderKinds == {e.kind : e \in view.header}

\* C26: in every rendered state the root view and the Header agree on the
\* Session: the body shows "Welcome back" exactly when the Header shows the
\* avatar menu and "Please log in to continue." exactly when the Header shows
\* the login button; a state in which the children are rendered shows one
\* message and one affordance, both for the user the store holds.
C26_BodyMatchesHeader ==
  /\ ("welcomeBack" \in view.body <=> "avatarMenu" \in HeaderKinds)
  /\ ("pleaseLogIn" \in view.body <=> "loginButton" \in HeaderKinds)
  /\ (view.session # None =>
        /\ view.body = (IF user # None THEN {"welcomeBack"} ELSE {"pleaseLogIn"})
        /\ HeaderKinds = (IF user # None THEN {"avatarMenu"} ELSE {"loginButton"}))
  /\ (view.session = None => view.body = {} /\ view.header = {})

\* a signed-in store is rendered: the body welcomes the user and the Header
\* shows the avatar menu with the user's initials
C26_Witness ==
  /\ phase = "mounted" /\ user = Some(Ada)
  /\ view.body = {"welcomeBack"}
  /\ HeaderKinds = {"avatarMenu"}
  /\ view.fallback = Some(<<"A", "L">>)

====
